---- MODULE Spec2Model ----
(***************************************************************************)
(* Volume profile and support strength pipeline of cl-option-zone.         *)
(*                                                                         *)
(* main() builds a VolumeProfileAnalyzer over the candle table, runs       *)
(* calculate() (histogram, POC, value area, results) and then hands the    *)
(* profile and the bucket table to SupportStrengthAnalyzer.calculate().    *)
(*                                                                         *)
(* Numbers.  Candle prices are integers.  Bucket edges and midpoints are   *)
(* rationals with denominator 2 * n_bins, so every price derived from the  *)
(* bucket table is kept multiplied by 2 * n_bins (Scaled).  Strengths are  *)
(* kept in fixed point: the bounce factor in tenths, the decay factor in   *)
(* thousandths.  Normalized scores are kept in hundredths (two decimals,   *)
(* as round(2) leaves them).  NaN is the value NaN.                        *)
(***************************************************************************)
EXTENDS Integers, Sequences, FiniteSets, TLC

\* ---- bounds of the model ----
MaxCandles == 2
BasePrice == 10
MaxPriceSteps == 3
MaxVolume == 1
MaxBins == 5
IterSlack == 2

\* ---- program constants ----
VaNum == 7
VaDen == 10
None == -1
NaN == -2

Prices == BasePrice .. (BasePrice + MaxPriceSteps)

Candles ==
    { c \in [Low : Prices, High : Prices, Close : Prices, Volume : 0 .. MaxVolume] :
        c.Low <= c.Close /\ c.Close <= c.High }

CandleSeries == UNION { [1 .. k -> Candles] : k \in 1 .. MaxCandles }

VARIABLES
    pc,              \* position in main()
    df,              \* the candle table
    n_bins,          \* VolumeProfileAnalyzer.n_bins
    bin_idx,         \* df['bin_idx']
    profile,         \* VolumeProfileAnalyzer.profile : bucket index -> volume
    bin_prices,      \* VolumeProfileAnalyzer.bin_prices : bucket index -> midpoint (Scaled)
    max_vol_idx,
    poc_price,
    total_volume,
    current_volume,
    upper_idx,
    lower_idx,
    next_upper,
    next_lower,
    vol_upper,
    vol_lower,
    iters,           \* number of passes through the expansion loop body
    vah,
    val,
    results,         \* get_results()["Total_Volume"]
    strength_scores, \* SupportStrengthAnalyzer.strength_scores : price -> strength
    current_price,
    full_data,       \* df of _normalize_and_rank, ordered by price
    report,          \* the filtered part of the dictionary calculate() returns
    outcome          \* how SupportStrengthAnalyzer.calculate ended

vpVars == << df, n_bins, bin_idx, profile, bin_prices, max_vol_idx, poc_price >>
vaVars == << total_volume, current_volume, upper_idx, lower_idx, next_upper,
             next_lower, vol_upper, vol_lower, iters, vah, val >>
ssVars == << strength_scores, current_price, full_data, report, outcome >>
vars == << pc, vpVars, vaVars, results, ssVars >>

\* ---- helpers ----
RECURSIVE SumSeq(_)
SumSeq(s) == IF s = << >> THEN 0 ELSE Head(s) + SumSeq(Tail(s))

RECURSIVE SumFun(_, _)
SumFun(f, D) ==
    IF D = {} THEN 0
    ELSE LET d == CHOOSE x \in D : TRUE IN f[d] + SumFun(f, D \ {d})

SetMin(S) == CHOOSE x \in S : \A y \in S : x <= y
SetMax(S) == CHOOSE x \in S : \A y \in S : x >= y
Abs(x) == IF x < 0 THEN -x ELSE x

\* dict.get / Series.get with a default
Get(f, k, default) == IF k \in DOMAIN f THEN f[k] ELSE default

\* ---- _build_histogram ----
PriceMin(d) == SetMin({ d[i].Low : i \in DOMAIN d })
PriceMax(d) == SetMax({ d[i].High : i \in DOMAIN d })

\* bins[k] = price_min + k * (price_max - price_min) / n, k = 0..n, times n
LinspaceN(lo, hi, n) == [ k \in 0 .. n |-> n * lo + k * (hi - lo) ]

\* np.digitize(x, bins), right=False: the number of edges <= x
Digitize(x, lo, hi, n) ==
    Cardinality({ k \in 0 .. n : LinspaceN(lo, hi, n)[k] <= n * x })

BinIdx(d, n) == [ i \in DOMAIN d |-> Digitize(d[i].Close, PriceMin(d), PriceMax(d), n) ]

\* the histogram reindexed to the buckets 1 .. n
BuildProfile_Reindexed(d, n) ==
    LET idx == BinIdx(d, n)
    IN  [ b \in 1 .. n |->
            SumFun([ i \in DOMAIN d |-> IF idx[i] = b THEN d[i].Volume ELSE 0 ], DOMAIN d) ]

\* all_bins.add(grouped, fill_value=0): the union of the two indexes
BuildProfile(d, n) ==
    LET idx == BinIdx(d, n)
        grouped == { idx[i] : i \in DOMAIN d }
        all_bins == 1 .. (n + 1)
    IN  [ b \in all_bins \cup grouped |->
            SumFun([ i \in DOMAIN d |-> IF idx[i] = b THEN d[i].Volume ELSE 0 ], DOMAIN d) ]

\* {i: (bins[i-1] + bins[i]) / 2 for i in range(1, len(bins))}, times 2n
BinPrices(d, n) ==
    LET b == LinspaceN(PriceMin(d), PriceMax(d), n)
    IN  [ i \in 1 .. n |-> b[i - 1] + b[i] ]

Scaled(x) == 2 * n_bins * x

Init ==
    /\ pc = "build_histogram"
    /\ df \in CandleSeries
    /\ n_bins \in 1 .. MaxBins
    /\ bin_idx = << >>
    /\ profile = << >>
    /\ bin_prices = << >>
    /\ max_vol_idx = None
    /\ poc_price = None
    /\ total_volume = None
    /\ current_volume = None
    /\ upper_idx = None
    /\ lower_idx = None
    /\ next_upper = None
    /\ next_lower = None
    /\ vol_upper = None
    /\ vol_lower = None
    /\ iters = 0
    /\ vah = None
    /\ val = None
    /\ results = None
    /\ strength_scores = << >>
    /\ current_price = None
    /\ full_data = << >>
    /\ report = << >>
    /\ outcome = "running"

BuildHistogram ==
    /\ pc = "build_histogram"
    /\ bin_idx' = BinIdx(df, n_bins)
    /\ profile' = BuildProfile(df, n_bins)
    /\ bin_prices' = BinPrices(df, n_bins)
    /\ pc' = "calculate_poc"
    /\ UNCHANGED << df, n_bins, max_vol_idx, poc_price, vaVars, results, ssVars >>

\* Series.idxmax(): the first label holding the maximum
IdxMax(p) ==
    CHOOSE i \in DOMAIN p :
        /\ \A j \in DOMAIN p : p[j] <= p[i]
        /\ \A j \in DOMAIN p : j < i => p[j] < p[i]

CalculatePoc ==
    /\ pc = "calculate_poc"
    /\ max_vol_idx' = IdxMax(profile)
    /\ poc_price' = Get(bin_prices, IdxMax(profile), 0)
    /\ pc' = "value_area"
    /\ UNCHANGED << df, n_bins, bin_idx, profile, bin_prices, vaVars, results, ssVars >>

\* ---- _calculate_value_area ----
\* current_volume < total_volume * va_range
BelowTarget(cur, total) == cur * VaDen < total * VaNum

\* vol_upper >= vol_lower
ExpandUp_OnTie(vu, vl) == vu >= vl

\* vol_upper > vol_lower
ExpandUp(vu, vl) == vu > vl

\* next_upper > self.n_bins or next_lower < 1
HitBoundaries_Either(nu, nl, n) == nu > n \/ nl < 1

\* next_upper > self.n_bins and next_lower < 1
HitBoundaries(nu, nl, n) == nu > n /\ nl < 1

ValueAreaInit ==
    /\ pc = "value_area"
    /\ total_volume' = SumFun(profile, DOMAIN profile)
    /\ current_volume' = profile[max_vol_idx]
    /\ upper_idx' = max_vol_idx
    /\ lower_idx' = max_vol_idx
    /\ pc' = "va_loop"
    /\ UNCHANGED << vpVars, next_upper, next_lower, vol_upper, vol_lower, iters,
                    vah, val, results, ssVars >>

ValueAreaStep ==
    /\ pc = "va_loop"
    /\ BelowTarget(current_volume, total_volume)
    /\ iters < 2 * n_bins + IterSlack
    /\ LET nu == upper_idx + 1
           nl == lower_idx - 1
           vu == Get(profile, nu, 0)
           vl == Get(profile, nl, 0)
       IN  /\ next_upper' = nu
           /\ next_lower' = nl
           /\ vol_upper' = vu
           /\ vol_lower' = vl
           /\ IF ExpandUp(vu, vl)
              THEN /\ current_volume' = current_volume + vu
                   /\ upper_idx' = nu
                   /\ lower_idx' = lower_idx
              ELSE /\ current_volume' = current_volume + vl
                   /\ lower_idx' = nl
                   /\ upper_idx' = upper_idx
           /\ pc' = IF HitBoundaries(nu, nl, n_bins) THEN "va_break" ELSE "va_loop"
    /\ iters' = iters + 1
    /\ UNCHANGED << vpVars, total_volume, vah, val, results, ssVars >>

ValueAreaEnd ==
    /\ \/ pc = "va_break"
       \/ pc = "va_loop" /\ ~BelowTarget(current_volume, total_volume)
    /\ vah' = Get(bin_prices, upper_idx, 0)
    /\ val' = Get(bin_prices, lower_idx, 0)
    /\ pc' = "get_results"
    /\ UNCHANGED << vpVars, total_volume, current_volume, upper_idx, lower_idx,
                    next_upper, next_lower, vol_upper, vol_lower, iters, results, ssVars >>

\* _identify_nodes only writes hvns and lvns, which nothing below reads
GetResults ==
    /\ pc = "get_results"
    /\ results' = SumFun(profile, DOMAIN profile)
    /\ pc' = "volume_strength"
    /\ UNCHANGED << vpVars, vaVars, ssVars >>

\* ---- SupportStrengthAnalyzer ----
RECURSIVE SetToSeqAsc(_)
SetToSeqAsc(S) ==
    IF S = {} THEN << >> ELSE << SetMin(S) >> \o SetToSeqAsc(S \ { SetMin(S) })

SeqRange(s) == { s[i] : i \in DOMAIN s }

RemoveAt(s, k) == [ i \in 1 .. (Len(s) - 1) |-> IF i < k THEN s[i] ELSE s[i + 1] ]

RECURSIVE SortDesc(_)
SortDesc(s) ==
    IF s = << >> THEN << >>
    ELSE LET m == SetMax(SeqRange(s))
             k == CHOOSE i \in DOMAIN s : s[i] = m
         IN  << m >> \o SortDesc(RemoveAt(s, k))

Reverse(s) == [ i \in DOMAIN s |-> s[Len(s) + 1 - i] ]

\* a / b rounded to the nearest integer, halves to even (a >= 0, b > 0)
RoundHalfEven(a, b) ==
    LET q == a \div b
        r == a % b
    IN  IF 2 * r < b THEN q
        ELSE IF 2 * r > b THEN q + 1
        ELSE IF q % 2 = 0 THEN q ELSE q + 1

\* if price >= 0
SeedOk_NonNegative(price) == price >= 0

\* if price > 0
SeedOk(price) == price > 0

\* float(volume), four decimals of fixed point
Fixed(volume) == volume * 10000

\* for bin_idx, volume in profile.items(): a later bucket overwrites an
\* earlier one that has the same midpoint
VolumeStrength(p, bp) ==
    LET keys == { x \in { Get(bp, b, 0) : b \in DOMAIN p } : SeedOk(x) }
    IN  [ price \in keys |->
            Fixed(p[SetMax({ b \in DOMAIN p : Get(bp, b, 0) = price })]) ]

CalculateVolumeStrength ==
    /\ pc = "volume_strength"
    /\ strength_scores' = VolumeStrength(profile, bin_prices)
    /\ pc' = "adjust_bounces"
    /\ UNCHANGED << vpVars, vaVars, results, current_price, full_data, report, outcome >>

\* tolerance = price * 0.002; Low >= price - tolerance and Low <= price + tolerance
Touches(price, d) ==
    Cardinality({ i \in DOMAIN d :
        /\ 1000 * Scaled(d[i].Low) >= 998 * price
        /\ 1000 * Scaled(d[i].Low) <= 1002 * price })

\* strength *= 1 + touches * 0.1
AdjustByBounces ==
    /\ pc = "adjust_bounces"
    /\ strength_scores' =
          [ price \in DOMAIN strength_scores |->
              (strength_scores[price] * (10 + Touches(price, df))) \div 10 ]
    /\ pc' = "adjust_distance"
    /\ UNCHANGED << vpVars, vaVars, results, current_price, full_data, report, outcome >>

\* 1000 * exp(-0.05 * k) for k = 0 .. 100
ExpTable ==
    << 1000, 951, 905, 861, 819, 779, 741, 705, 670, 638, 607, 577, 549, 522,
       497, 472, 449, 427, 407, 387, 368, 350, 333, 317, 301, 287, 273, 259,
       247, 235, 223, 212, 202, 192, 183, 174, 165, 157, 150, 142, 135, 129,
       122, 116, 111, 105, 100, 95, 91, 86, 82, 78, 74, 71, 67, 64, 61, 58, 55,
       52, 50, 47, 45, 43, 41, 39, 37, 35, 33, 32, 30, 29, 27, 26, 25, 24, 22,
       21, 20, 19, 18, 17, 17, 16, 15, 14, 14, 13, 12, 12, 11, 11, 10, 10, 9,
       9, 8, 8, 7, 7, 7 >>

\* np.exp(-5 * abs(price - current_price) / current_price) in thousandths,
\* the distance ratio taken in whole percent
DecayMilli(price, cur) ==
    LET pct == (100 * Abs(price - Scaled(cur))) \div Scaled(cur)
    IN  ExpTable[(IF pct > 100 THEN 100 ELSE pct) + 1]

AdjustByDistance ==
    /\ pc = "adjust_distance"
    /\ \E cur \in Prices :
          /\ current_price' = cur
          /\ strength_scores' =
                [ price \in DOMAIN strength_scores |->
                    (strength_scores[price] * DecayMilli(price, cur)) \div 1000 ]
    /\ pc' = "normalize_rank"
    /\ UNCHANGED << vpVars, vaVars, results, full_data, report, outcome >>

\* ((strength - min_val) / (max_val - min_val) * 100).round(2), in hundredths
Normalized(s, lo, hi) ==
    IF hi = lo THEN NaN ELSE RoundHalfEven((s - lo) * 10000, hi - lo)

\* Series.rank(ascending=False, method='max'): the last position of the value
RankMin_Last(vals, x) ==
    IF x = NaN THEN NaN
    ELSE LET sorted == SortDesc(vals)
         IN  CHOOSE k \in DOMAIN sorted :
                /\ sorted[k] = x
                /\ \A j \in (k + 1) .. Len(sorted) : sorted[j] # x

\* Series.rank(ascending=False, method='min'): the first position of the
\* value in the descending order; NaN stays NaN
RankMin(vals, x) ==
    IF x = NaN THEN NaN
    ELSE LET sorted == SortDesc(vals)
         IN  CHOOSE k \in DOMAIN sorted :
                /\ sorted[k] = x
                /\ \A j \in 1 .. (k - 1) : sorted[j] # x

\* Series.quantile(0.70), linear interpolation, times 10
Quantile70(vals) ==
    LET s == Reverse(SortDesc(vals))
        pos == 7 * (Len(s) - 1)
        lo == pos \div 10
        fr == pos % 10
    IN  IF fr = 0 THEN 10 * s[lo + 1]
        ELSE 10 * s[lo + 1] + (s[lo + 2] - s[lo + 1]) * fr

\* df[df['normalized'] >= threshold]
RECURSIVE Filter(_, _)
Filter(rows, thr) ==
    IF rows = << >> THEN << >>
    ELSE IF 10 * Head(rows).normalized >= thr
         THEN << Head(rows) >> \o Filter(Tail(rows), thr)
         ELSE Filter(Tail(rows), thr)

\* df with the columns price, strength, normalized and rank, sorted by price
NormalizedRows(scores) ==
    LET prices == SetToSeqAsc(DOMAIN scores)
        min_val == SetMin({ scores[p] : p \in DOMAIN scores })
        max_val == SetMax({ scores[p] : p \in DOMAIN scores })
        norm == [ i \in DOMAIN prices |-> Normalized(scores[prices[i]], min_val, max_val) ]
    IN  [ i \in DOMAIN prices |->
            [ price |-> prices[i], strength |-> scores[prices[i]],
              normalized |-> norm[i], rank |-> RankMin(norm, norm[i]) ] ]

NormalizedColumn(rows) == [ i \in DOMAIN rows |-> rows[i].normalized ]

\* df_filtered
FilteredRows(rows) ==
    IF rows = << >> THEN << >> ELSE Filter(rows, Quantile70(NormalizedColumn(rows)))

\* the dictionary returned, without z_scores
Report(kept, n) ==
    [ levels |-> [ i \in DOMAIN kept |-> RoundHalfEven(kept[i].price * 100, 2 * n) ],
      strengths |-> [ i \in DOMAIN kept |-> RoundHalfEven(kept[i].strength, 10000) ],
      normalized |-> NormalizedColumn(kept),
      ranks |-> [ i \in DOMAIN kept |->
                    RankMin(NormalizedColumn(kept), kept[i].normalized) ] ]

NormalizeAndRank ==
    /\ pc = "normalize_rank"
    /\ \E rows \in { NormalizedRows(strength_scores) } :
          /\ full_data' = rows
          /\ IF \E i \in DOMAIN rows : rows[i].rank = NaN
             THEN \* astype(int) raises on a NaN rank
                  /\ outcome' = "ValueError"
                  /\ report' = report
             ELSE /\ outcome' = "returned"
                  /\ \E kept \in { FilteredRows(rows) } : report' = Report(kept, n_bins)
    /\ pc' = "done"
    /\ UNCHANGED << vpVars, vaVars, results, strength_scores, current_price >>

Next ==
    \/ BuildHistogram
    \/ CalculatePoc
    \/ ValueAreaInit
    \/ ValueAreaStep
    \/ ValueAreaEnd
    \/ GetResults
    \/ CalculateVolumeStrength
    \/ AdjustByBounces
    \/ AdjustByDistance
    \/ NormalizeAndRank

Spec == Init /\ [][Next]_vars

\* ---- properties ----
CandleVolume == SumSeq([ i \in DOMAIN df |-> df[i].Volume ])
ProfileVolume == SumFun(profile, DOMAIN profile)
Built == pc # "build_histogram"
Stopped == pc = "va_break" \/ vah # None
Seeded == pc \in { "adjust_bounces", "adjust_distance", "normalize_rank", "done" }
Enclosed ==
    SumFun([ i \in lower_idx .. upper_idx |-> Get(profile, i, 0) ], lower_idx .. upper_idx)
InRange(i) == i \in 1 .. n_bins
NoVolume == \A b \in DOMAIN profile : profile[b] = 0
\* the candles span a price range that can be cut into buckets
ValidRange == PriceMin(df) < PriceMax(df)

\* C1: the expansion loop of _calculate_value_area never starts more than
\* 2 * n_bins passes through its body.
C1_LoopWithinTwiceBins == iters <= 2 * n_bins

\* C2: once the value area is computed, val <= poc_price <= vah.
C2_ValPocVahOrdered ==
    (vah # None /\ ValidRange) => (val <= poc_price /\ poc_price <= vah)

\* C3: when the expansion has stopped, the buckets lower_idx .. upper_idx
\* hold at least va_range of the total volume, or the bucket above upper_idx
\* and the bucket below lower_idx are both outside 1 .. n_bins.
C3_StopEnclosesTargetOrExhausted ==
    Stopped =>
        \/ Enclosed * VaDen >= ProfileVolume * VaNum
        \/ ~InRange(upper_idx + 1) /\ ~InRange(lower_idx - 1)

\* the expansion stopped on the target, after at least one step, with a
\* bucket still left above
C3_Witness ==
    /\ vah # None
    /\ iters >= 1
    /\ InRange(upper_idx + 1)
    /\ ProfileVolume > 0

\* C4: the profile's volumes sum to the candles' volumes, and so does
\* Total_Volume of get_results.
C4_VolumeConserved ==
    /\ Built => ProfileVolume = CandleVolume
    /\ results # None => results = CandleVolume

\* two candles with volume, one closing at the lowest Low and one at the
\* highest High
C4_Witness ==
    /\ results # None
    /\ Len(df) >= 2
    /\ \E i, j \in DOMAIN df :
          /\ df[i].Volume > 0 /\ df[i].Close = PriceMin(df)
          /\ df[j].Volume > 0 /\ df[j].Close = PriceMax(df)
          /\ ValidRange

\* C5: every Close is assigned a bucket in 1 .. n_bins that has a midpoint,
\* price_min goes to bucket 1, price_max to bucket n_bins, and the profile
\* has exactly the indices 1 .. n_bins.
C5_CloseInBucketRange ==
    (Built /\ ValidRange) =>
        /\ \A i \in DOMAIN df :
              /\ InRange(bin_idx[i])
              /\ bin_idx[i] \in DOMAIN bin_prices
              /\ df[i].Close = PriceMin(df) => bin_idx[i] = 1
              /\ df[i].Close = PriceMax(df) => bin_idx[i] = n_bins
        /\ DOMAIN profile = 1 .. n_bins

\* C6 as stated: after a step of the expansion the boundary that moved is the
\* one toward the larger neighbour volume, and on a tie it is the upper one.
C6_TieExpandsUp ==
    iters > 0 =>
        /\ vol_upper > vol_lower => upper_idx = next_upper /\ lower_idx = next_lower + 1
        /\ vol_upper < vol_lower => lower_idx = next_lower /\ upper_idx = next_upper - 1
        /\ vol_upper = vol_lower => upper_idx = next_upper /\ lower_idx = next_lower + 1

\* C6 amended: after a step of the expansion the upper boundary has moved when
\* the volume above was strictly larger; otherwise, a tie included, the lower
\* boundary has moved and the upper one has not.
C6_TieExpandsDown ==
    iters > 0 =>
        /\ vol_upper = Get(profile, next_upper, 0)
        /\ vol_lower = Get(profile, next_lower, 0)
        /\ vol_upper > vol_lower => upper_idx = next_upper /\ lower_idx = next_lower + 1
        /\ vol_upper <= vol_lower => lower_idx = next_lower /\ upper_idx = next_upper - 1

\* a step with equal neighbour volumes, both neighbours inside 1 .. n_bins
C6_Witness ==
    /\ iters > 0
    /\ vol_upper = vol_lower
    /\ InRange(next_upper)
    /\ InRange(next_lower)
    /\ lower_idx = next_lower

Midpoints == { bin_prices[b] : b \in DOMAIN profile \cap DOMAIN bin_prices }
FullDataPrices == { full_data[i].price : i \in DOMAIN full_data }

\* C7 as stated: after stage 1 the prices carrying a strength are exactly the
\* midpoints of the buckets with volume > 0.
C7_OnlyPositiveVolumeSeeded ==
    (Seeded /\ ValidRange) =>
        DOMAIN strength_scores =
            { bin_prices[b] : b \in { x \in DOMAIN profile \cap DOMAIN bin_prices : profile[x] > 0 } }

\* C7 amended: after stage 1 the prices carrying a strength are exactly the
\* midpoints of the profile's buckets that have one, whatever their volume; a
\* bucket with zero volume is seeded with strength 0 and is in the full data.
C7_EveryMidpointSeeded ==
    /\ Seeded => DOMAIN strength_scores = Midpoints
    /\ pc = "adjust_bounces" =>
          \A b \in DOMAIN profile \cap DOMAIN bin_prices :
             (profile[b] = 0 /\ ValidRange) =>
                 strength_scores[bin_prices[b]] = 0
    /\ pc = "done" => FullDataPrices = Midpoints

\* stage 1 has run on a profile with an empty bucket and a filled one
C7_Witness ==
    /\ pc = "adjust_bounces"
    /\ ValidRange
    /\ \E b, c \in DOMAIN bin_prices :
          /\ profile[b] = 0
          /\ bin_prices[b] \in DOMAIN strength_scores
          /\ profile[c] > 0

\* C8: with no positive volume in the profile, calculate ends in
\* EmptyProfileError and returns no report.
C8_EmptyProfileError ==
    (pc = "done" /\ ValidRange /\ NoVolume) => (outcome = "EmptyProfileError" /\ report = << >>)

\* C9: calculate returns, every normalized value lies in 0 .. 100, the
\* strongest price is at 100 and the weakest at 0, and when all strengths are
\* equal every price is at 0.
C9_NormalizedInRange ==
    (pc = "done" /\ ValidRange) =>
        /\ outcome = "returned"
        /\ \A i \in DOMAIN full_data :
              LET r == full_data[i]
                  top == \A j \in DOMAIN full_data : full_data[j].strength <= r.strength
                  bottom == \A j \in DOMAIN full_data : full_data[j].strength >= r.strength
              IN  /\ r.normalized \in 0 .. 10000
                  /\ (top /\ ~bottom) => r.normalized = 10000
                  /\ bottom => r.normalized = 0

\* C10: in the report returned, the records are those of the full data whose
\* normalized score is >= the 70th percentile, a record's rank is 1 + the
\* number of reported records with a strictly greater score, and the records
\* of rank 1 are those with the greatest score.
C10_FilteredCompetitionRanks ==
    outcome = "returned" =>
        LET all == NormalizedColumn(full_data)
            keep(r) == 10 * r.normalized >= Quantile70(all)
            fn == report.normalized
        IN  /\ fn = NormalizedColumn(SelectSeq(full_data, keep))
            /\ DOMAIN report.ranks = DOMAIN fn
            /\ \A i \in DOMAIN fn :
                  /\ report.ranks[i] = 1 + Cardinality({ j \in DOMAIN fn : fn[j] > fn[i] })
                  /\ report.ranks[i] = 1 <=> (\A j \in DOMAIN fn : fn[j] <= fn[i])

\* a report with two records tied on one rank and a record on another
C10_Witness ==
    /\ outcome = "returned"
    /\ \E i, j, k \in DOMAIN report.ranks :
          /\ i # j
          /\ report.ranks[i] = report.ranks[j]
          /\ report.ranks[k] # report.ranks[i]
====
